---- MODULE Spec2Model ----
(***************************************************************************)
(* The eBUS receive pipeline of src/ebus/parser.rs: the adapter deframer,  *)
(* the telegram state machine and the telegram callback, driven by feed(). *)
(***************************************************************************)
EXTENDS Integers, Sequences, FiniteSets, TLC

\* ---------------------------------------------------------------- constants
SYN == 170
ACK == 0
NACK == 255
BROADCAST == 254
\* largest length byte WaitingForLen accepts (0x10)
MAX_LEN == 16
\* feed() starts a parse pass only when more than this many bytes are queued
FEED_THRESHOLD == 64

\* ------------------------------------------------------ 8-bit bit operations
RECURSIVE BitsXor(_, _, _)
BitsXor(a, b, n) ==
    IF n = 0 THEN 0
    ELSE ((a + b) % 2) + 2 * BitsXor(a \div 2, b \div 2, n - 1)

RECURSIVE BitsAnd(_, _, _)
BitsAnd(a, b, n) ==
    IF n = 0 THEN 0
    ELSE ((a % 2) * (b % 2)) + 2 * BitsAnd(a \div 2, b \div 2, n - 1)

RECURSIVE BitsOr(_, _, _)
BitsOr(a, b, n) ==
    IF n = 0 THEN 0
    ELSE (IF (a % 2) + (b % 2) > 0 THEN 1 ELSE 0) + 2 * BitsOr(a \div 2, b \div 2, n - 1)

\* ------------------------------------------------------------------- CRC8
CRC_LOOKUP_TABLE == <<
      0, 155, 173,  54, 193,  90, 108, 247,  25, 130, 180,  47, 216,  67, 117, 238,
     50, 169, 159,   4, 243, 104,  94, 197,  43, 176, 134,  29, 234, 113,  71, 220,
    100, 255, 201,  82, 165,  62,   8, 147, 125, 230, 208,  75, 188,  39,  17, 138,
     86, 205, 251,  96, 151,  12,  58, 161,  79, 212, 226, 121, 142,  21,  35, 184,
    200,  83, 101, 254,   9, 146, 164,  63, 209,  74, 124, 231,  16, 139, 189,  38,
    250,  97,  87, 204,  59, 160, 150,  13, 227, 120,  78, 213,  34, 185, 143,  20,
    172,  55,   1, 154, 109, 246, 192,  91, 181,  46,  24, 131, 116, 239, 217,  66,
    158,   5,  51, 168,  95, 196, 242, 105, 135,  28,  42, 177,  70, 221, 235, 112,
     11, 144, 166,  61, 202,  81, 103, 252,  18, 137, 191,  36, 211,  72, 126, 229,
     57, 162, 148,  15, 248,  99,  85, 206,  32, 187, 141,  22, 225, 122,  76, 215,
    111, 244, 194,  89, 174,  53,   3, 152, 118, 237, 219,  64, 183,  44,  26, 129,
     93, 198, 240, 107, 156,   7,  49, 170,  68, 223, 233, 114, 133,  30,  40, 179,
    195,  88, 110, 245,   2, 153, 175,  52, 218,  65, 119, 236,  27, 128, 182,  45,
    241, 106,  92, 199,  48, 171, 157,   6, 232, 115,  69, 222,  41, 178, 132,  31,
    167,  60,  10, 145, 102, 253, 203,  80, 190,  37,  19, 136, 127, 228, 210,  73,
    149,  14,  56, 163,  84, 207, 249,  98, 140,  23,  33, 186,  77, 214, 224, 123
>>

\* update_crc looking up the low seven bits of the running value only
update_crc_half_table(crc, value) == BitsXor(CRC_LOOKUP_TABLE[(crc % 128) + 1], value, 8)

update_crc(crc, value) == BitsXor(CRC_LOOKUP_TABLE[crc + 1], value, 8)

\* the left fold of update_crc over bytes, from crc (the fold over the first
\* half, then over the rest from there)
RECURSIVE crc_fold(_, _)
crc_fold(crc, bytes) ==
    IF bytes = <<>> THEN crc
    ELSE IF Len(bytes) = 1 THEN update_crc(crc, bytes[1])
    ELSE LET half == crc_fold(crc, SubSeq(bytes, 1, Len(bytes) \div 2))
         IN  IF half \in 0 .. 255
             THEN crc_fold(half, SubSeq(bytes, (Len(bytes) \div 2) + 1, Len(bytes)))
             ELSE half

\* EbusRequest::calc_crc8
request_calc_crc8(r) ==
    crc_fold(0, <<r.src, r.dest, r.pbsb \div 256, BitsAnd(r.pbsb, 255, 16), r.len>> \o r.data)

\* EbusResponse::calc_crc8
response_calc_crc8(r) == crc_fold(0, <<r.len>> \o r.data)

\* ------------------------------------------------------------ data records
\* EbusRequest / EbusResponse as EbusParser::new and their clear() leave them
EmptyRequest == [src |-> 0, dest |-> 0, pbsb |-> 0, len |-> 0, data |-> <<>>, crc |-> 0]
EmptyResponse == [len |-> 0, data |-> <<>>, crc |-> 0]

\* EbusData
PureByte(b) == [kind |-> "PureByte", data |-> b]
EnhancedProtocol(cmd, data) == [kind |-> "EnhancedProtocol", cmd |-> cmd, data |-> data]

\* EnhProtoResponse: the discriminants the enum defines
EnhProtoResponse == {0, 1, 2, 3, 10, 11, 12}
Received == 1

\* the builds of the crate: arithmetic overflow panics (debug) or wraps
\* (release); a transmute to a discriminant outside EnhProtoResponse is
\* undefined, the match then takes a status arm, the Received arm, or traps
Builds == [overflow : {"panic", "wrap"}, ub : {"status", "received", "trap"}]

\* `byte as i8`
as_i8(b) == IF b >= 128 THEN b - 256 ELSE b

\* decode_enhproto_tuple, with the u8 addition's overflow made explicit
decode_enhproto_tuple(b1, b2) ==
    LET hi  == ((b1 - 192) * 64) % 256
        sum == hi + (b2 - 128)
    IN  [cmd |-> (b1 - 192) \div 4, data |-> sum % 256, overflow |-> sum > 255]

\* ---------------------------------------------- operations on the parser
\* ps is the EbusParser (its fields), the callback's log `delivered', the
\* position `pc' of the feeding thread and `halted' (the thread panicked).

\* EbusParser::new
NewParser ==
    [state |-> "WaitingForSYN", request |-> EmptyRequest, response |-> EmptyResponse,
     incoming_data_len |-> 0, incoming |-> <<>>, buffer |-> <<>>,
     got_response |-> FALSE, ack_received |-> FALSE, got_broadcast |-> FALSE,
     delivered |-> <<>>, halted |-> FALSE, pc |-> "idle"]

\* EbusParser::clear
clear(ps) ==
    [ps EXCEPT !.state = "WaitingForSYN", !.request = EmptyRequest,
               !.response = EmptyResponse, !.incoming = <<>>, !.buffer = <<>>,
               !.incoming_data_len = 0, !.got_response = FALSE,
               !.ack_received = FALSE, !.got_broadcast = FALSE]

\* process_frame calling back in both of its `if self.got_response` blocks
process_frame_twice(ps) ==
    LET entry == [request |-> ps.request,
                  has_response |-> ps.got_response,
                  response |-> IF ps.got_response THEN ps.response ELSE EmptyResponse]
    IN  [ps EXCEPT !.delivered = IF ps.got_response
                                 THEN Append(Append(@, entry), entry)
                                 ELSE Append(@, entry)]

\* EbusParser::process_frame: the callback gets the request and Some(response)
\* or None
process_frame(ps) ==
    [ps EXCEPT !.delivered =
        Append(@, [request |-> ps.request,
                   has_response |-> ps.got_response,
                   response |-> IF ps.got_response THEN ps.response ELSE EmptyResponse])]

\* EbusParser::process
process(ps) ==
    [process_frame(ps) EXCEPT !.got_response = FALSE, !.ack_received = FALSE,
                              !.response = EmptyResponse, !.request = EmptyRequest]

\* `self.incoming_data_len -= 1` on an i8
dec_incoming_data_len(ps, build) ==
    IF ps.incoming_data_len = -128
    THEN IF build.overflow = "panic"
         THEN [ps EXCEPT !.halted = TRUE]
         ELSE [ps EXCEPT !.incoming_data_len = 127]
    ELSE [ps EXCEPT !.incoming_data_len = @ - 1]

\* ------------------------------- parse_protocol_buffer: one arm per state
on_WaitingForSYN(ps, byte) ==
    IF byte = SYN THEN [ps EXCEPT !.state = "WaitingForSrc"] ELSE ps

on_WaitingForSrc(ps, byte) ==
    IF byte # SYN
    THEN [ps EXCEPT !.request.src = byte, !.state = "WaitingForDest"]
    ELSE ps

on_WaitingForDest(ps, byte) ==
    [ps EXCEPT !.request.dest = byte,
               !.got_broadcast = IF byte = BROADCAST THEN TRUE ELSE @,
               !.state = "WaitingForPB"]

on_WaitingForPB(ps, byte) ==
    [ps EXCEPT !.request.pbsb = (byte * 256) % 65536, !.state = "WaitingForSB"]

on_WaitingForSB(ps, byte) ==
    [ps EXCEPT !.request.pbsb = BitsOr(@, byte, 16), !.state = "WaitingForLen"]

on_WaitingForLen(ps, byte) ==
    IF byte > MAX_LEN
    THEN clear(ps)
    ELSE [ps EXCEPT !.response.len = IF ps.got_response THEN byte ELSE @,
                    !.request.len = IF ps.got_response THEN @ ELSE byte,
                    !.incoming_data_len = as_i8(byte),
                    !.state = "WaitingForData"]

\* WaitingForData that pushes every payload byte into the request
on_WaitingForData_into_request(ps, byte, build) ==
    LET pushed == [ps EXCEPT !.request.data = Append(@, byte)]
        dec == dec_incoming_data_len(pushed, build)
    IN  IF ~dec.halted /\ dec.incoming_data_len = 0
        THEN [dec EXCEPT !.state = "WaitingForCRC"]
        ELSE dec

on_WaitingForData(ps, byte, build) ==
    LET pushed == IF ps.got_response
                  THEN [ps EXCEPT !.response.data = Append(@, byte)]
                  ELSE [ps EXCEPT !.request.data = Append(@, byte)]
        dec == dec_incoming_data_len(pushed, build)
    IN  IF ~dec.halted /\ dec.incoming_data_len = 0
        THEN [dec EXCEPT !.state = "WaitingForCRC"]
        ELSE dec

on_WaitingForCRC(ps, byte) ==
    LET stored == IF ps.got_response
                  THEN [ps EXCEPT !.response.crc = byte]
                  ELSE [ps EXCEPT !.request.crc = byte]
        crc == IF ps.got_response
               THEN response_calc_crc8(stored.response)
               ELSE request_calc_crc8(stored.request)
        checked == IF crc = byte THEN stored ELSE clear(stored)
    IN  [checked EXCEPT !.state = "WaitingForACK"]

\* the NACK branch without its call of clear()
on_WaitingForACK_nack_keeps_telegram(ps, byte) ==
    IF byte = ACK
    THEN LET acked == [ps EXCEPT !.ack_received = TRUE]
         IN  IF acked.got_response
             THEN process([acked EXCEPT !.state = "WaitingForSYN"])
             ELSE [acked EXCEPT !.state = "WaitingForResponse"]
    ELSE IF byte = NACK
    THEN [ps EXCEPT !.state = "WaitingForSYN"]
    ELSE IF byte = SYN
    THEN LET done == IF ps.got_broadcast THEN process(ps) ELSE ps
         IN  [done EXCEPT !.state = "WaitingForSrc"]
    ELSE clear(ps)

on_WaitingForACK(ps, byte) ==
    IF byte = ACK
    THEN LET acked == [ps EXCEPT !.ack_received = TRUE]
         IN  IF acked.got_response
             THEN process([acked EXCEPT !.state = "WaitingForSYN"])
             ELSE [acked EXCEPT !.state = "WaitingForResponse"]
    ELSE IF byte = NACK
    THEN clear([ps EXCEPT !.state = "WaitingForSYN"])
    ELSE IF byte = SYN
    THEN LET done == IF ps.got_broadcast THEN process(ps) ELSE ps
         IN  [done EXCEPT !.state = "WaitingForSrc"]
    ELSE clear(ps)

on_WaitingForResponse(ps, byte) ==
    IF byte = SYN
    THEN process([ps EXCEPT !.state = "WaitingForSYN"])
    ELSE [ps EXCEPT !.got_response = TRUE, !.response.len = byte,
                    !.incoming_data_len = as_i8(byte),
                    !.state = "WaitingForData"]

\* the match on self.state for one logical byte
parse_byte(ps, byte, build) ==
    CASE ps.state = "WaitingForSYN"      -> on_WaitingForSYN(ps, byte)
      [] ps.state = "WaitingForSrc"      -> on_WaitingForSrc(ps, byte)
      [] ps.state = "WaitingForDest"     -> on_WaitingForDest(ps, byte)
      [] ps.state = "WaitingForPB"       -> on_WaitingForPB(ps, byte)
      [] ps.state = "WaitingForSB"       -> on_WaitingForSB(ps, byte)
      [] ps.state = "WaitingForLen"      -> on_WaitingForLen(ps, byte)
      [] ps.state = "WaitingForData"     -> on_WaitingForData(ps, byte, build)
      [] ps.state = "WaitingForCRC"      -> on_WaitingForCRC(ps, byte)
      [] ps.state = "WaitingForACK"      -> on_WaitingForACK(ps, byte)
      [] ps.state = "WaitingForResponse" -> on_WaitingForResponse(ps, byte)

\* one iteration of the loop of parse_protocol_buffer: pop the front of
\* buffer (leaving the loop when it is empty), deencapsulate, dispatch
parse_protocol_buffer_iter(ps, build) ==
    IF ps.buffer = <<>>
    THEN [ps EXCEPT !.pc = "idle"]
    ELSE parse_byte([ps EXCEPT !.buffer = Tail(@)], Head(ps.buffer).data, build)

\* the match on the transmuted command of a valid escaped pair
on_enhproto(ps, t, build) ==
    IF t.overflow /\ build.overflow = "panic"
    THEN [ps EXCEPT !.halted = TRUE]
    ELSE IF t.cmd = Received
    THEN [ps EXCEPT !.buffer = Append(@, EnhancedProtocol(t.cmd, t.data))]
    ELSE IF t.cmd \in EnhProtoResponse
    THEN ps
    ELSE CASE build.ub = "status"   -> ps
           [] build.ub = "received" -> [ps EXCEPT !.buffer = Append(@, EnhancedProtocol(t.cmd, t.data))]
           [] build.ub = "trap"     -> [ps EXCEPT !.halted = TRUE]

\* one iteration of the loop of parse_incoming_data; leaving the loop hands
\* over to parse_protocol_buffer
parse_incoming_data_iter(ps, build) ==
    IF ps.incoming = <<>>
    THEN [ps EXCEPT !.pc = "parse"]
    ELSE LET b1 == Head(ps.incoming)
             r1 == Tail(ps.incoming)
         IN  IF BitsAnd(b1, 192, 8) = 192
             THEN IF r1 = <<>>
                  THEN [ps EXCEPT !.incoming = r1, !.pc = "parse"]
                  ELSE LET b2 == Head(r1)
                           popped == [ps EXCEPT !.incoming = Tail(r1)]
                       IN  IF BitsAnd(b2, 128, 8) = 128
                           THEN on_enhproto(popped, decode_enhproto_tuple(b1, b2), build)
                           ELSE popped
             ELSE [ps EXCEPT !.incoming = r1, !.buffer = Append(@, PureByte(b1))]

\* EbusParser::feed up to the call of parse_incoming_data
feed(ps, data) ==
    LET queued == ps.incoming \o data
    IN  [ps EXCEPT !.incoming = queued,
                   !.pc = IF Len(queued) > FEED_THRESHOLD THEN "deframe" ELSE "idle"]

\* one loop iteration of whichever loop the feed call is in (nothing once it
\* has returned or panicked)
pass_step(ps, build) ==
    IF ps.halted \/ ps.pc = "idle" THEN ps
    ELSE IF ps.pc = "deframe" THEN parse_incoming_data_iter(ps, build)
    ELSE parse_protocol_buffer_iter(ps, build)

\* n loop iterations in a row
RECURSIVE iterate_pass(_, _, _)
iterate_pass(ps, n, build) ==
    IF n = 0 THEN ps
    ELSE IF n = 1 THEN pass_step(ps, build)
    ELSE LET half == iterate_pass(ps, n \div 2, build)
         IN  IF half.halted \/ half.pc = "idle" THEN half
             ELSE iterate_pass(half, n - (n \div 2), build)

\* the rest of a feed call: both loops run to their end (or to a panic); the
\* deframing loop runs at most once per queued byte and once more, the state
\* machine loop at most once per deframed byte and once more
run_pass(ps, build) == iterate_pass(ps, 2 * Len(ps.incoming) + 2, build)

\* feed calls in a row, one per chunk
RECURSIVE feed_all(_, _, _)
feed_all(ps, chunks, build) ==
    IF chunks = <<>> \/ ps.halted THEN ps
    ELSE IF Len(chunks) = 1 THEN run_pass(feed(ps, chunks[1]), build)
    ELSE LET half == feed_all(ps, SubSeq(chunks, 1, Len(chunks) \div 2), build)
         IN  IF half.halted THEN half
             ELSE feed_all(half, SubSeq(chunks, (Len(chunks) \div 2) + 1, Len(chunks)), build)

\* ------------------------------------------------------- the byte source
\* number of idle SYN bytes in front of a telegram
PadLen == 60
\* payload lengths 0..MaxPay (and MAX_LEN) are fed
MaxPay == 2

Lens == (0 .. MaxPay) \cup {MAX_LEN}

Idle(n) == [i \in 1 .. n |-> SYN]

\* the adapter's escaped pair for a data byte (command Received), the
\* inverse of decode_enhproto_tuple; bytes below 0xC0 travel as they are
Wire(b) ==
    IF b >= 192 THEN <<192 + 4 * Received + ((b \div 64) % 4), 128 + (b % 64)>> ELSE <<b>>

RECURSIVE WireAll(_)
WireAll(bytes) ==
    IF bytes = <<>> THEN <<>> ELSE Wire(Head(bytes)) \o WireAll(Tail(bytes))

Payload(n) == [i \in 1 .. n |-> (18 + 34 * (i - 1)) % 128]

\* a request / a response with the checksum its calc_crc8 yields
MkRequest(src, dest, pbsb, n) ==
    LET r == [src |-> src, dest |-> dest, pbsb |-> pbsb, len |-> n,
              data |-> Payload(n), crc |-> 0]
    IN  [r EXCEPT !.crc = request_calc_crc8(r)]

MkResponse(n) ==
    LET r == [len |-> n, data |-> Payload(n), crc |-> 0]
    IN  [r EXCEPT !.crc = response_calc_crc8(r)]

\* the logical bytes of a request / a response on the bus
RequestBytes(r) == <<r.src, r.dest, r.pbsb \div 256, r.pbsb % 256, r.len>> \o r.data \o <<r.crc>>
ResponseBytes(r) == <<r.len>> \o r.data \o <<r.crc>>

RECURSIVE Rechunk(_, _)
Rechunk(bytes, k) ==
    IF Len(bytes) <= k THEN <<bytes>>
    ELSE <<SubSeq(bytes, 1, k)>> \o Rechunk(SubSeq(bytes, k + 1, Len(bytes)), k)

Script(name, req, resp, chunks) ==
    [name |-> name, req |-> req, resp |-> resp, chunks |-> chunks]

\* SYN, request, ACK, SYN
NoRespBytes(r) == <<SYN>> \o RequestBytes(r) \o <<ACK, SYN>>
\* SYN, request, ACK, response, ACK
WithRespBytes(r, s) == <<SYN>> \o RequestBytes(r) \o <<ACK>> \o ResponseBytes(s) \o <<ACK>>
\* SYN, broadcast request, SYN
BroadcastBytes(r) == <<SYN>> \o RequestBytes(r) \o <<SYN>>

\* a telegram fed to a fresh parser in one feed call
BareScripts ==
    { Script("bare_noresp", MkRequest(3, 16, 1792, n), EmptyResponse,
             <<WireAll(NoRespBytes(MkRequest(3, 16, 1792, n)))>>) : n \in Lens }
    \cup
    { Script("bare_resp", MkRequest(3, 16, 1792, n), MkResponse(MaxPay),
             <<WireAll(WithRespBytes(MkRequest(3, 16, 1792, n), MkResponse(MaxPay)))>>) : n \in Lens }
    \cup
    { Script("bare_broadcast", MkRequest(3, BROADCAST, 1792, n), EmptyResponse,
             <<WireAll(BroadcastBytes(MkRequest(3, BROADCAST, 1792, n)))>>) : n \in Lens }

\* the same behind PadLen idle SYN bytes, so that the feed call parses
PaddedScripts ==
    { Script("pad_noresp", MkRequest(3, 16, 1792, n), EmptyResponse,
             <<Idle(PadLen) \o WireAll(NoRespBytes(MkRequest(3, 16, 1792, n)))>>) : n \in Lens }
    \cup
    { Script("pad_resp", MkRequest(3, 16, 1792, n), MkResponse(m),
             <<Idle(PadLen) \o WireAll(WithRespBytes(MkRequest(3, 16, 1792, n), MkResponse(m)))>>) :
         n \in Lens, m \in Lens }
    \cup
    { Script("pad_broadcast", MkRequest(3, BROADCAST, 1792, n), EmptyResponse,
             <<Idle(PadLen) \o WireAll(BroadcastBytes(MkRequest(3, BROADCAST, 1792, n)))>>) : n \in Lens }

\* what the callback receives for a request without / with a response
RequestOnly(req) == [request |-> req, has_response |-> FALSE, response |-> EmptyResponse]
RequestAndResponse(req, resp) == [request |-> req, has_response |-> TRUE, response |-> resp]

\* the request of the spec's examples with n payload bytes
Req(n) == MkRequest(3, 16, 1792, n)

\* a request with one altered byte: the checksum, or the first payload byte
AlterCrc(r) == [r EXCEPT !.crc = (@ + 1) % 256]
AlterPayload(r) == [r EXCEPT !.data[1] = (@ + 1) % 128]

\* a telegram whose checksum check fails, fed up to the failing checksum byte;
\* the bus goes on with ACK, SYN (and idles) in the next feed call
BadCrcScripts ==
    { Script("badcrc_request", Req(n), EmptyResponse,
             << Idle(PadLen) \o WireAll(<<SYN>> \o RequestBytes(AlterCrc(Req(n)))),
                <<ACK, SYN>> \o Idle(FEED_THRESHOLD) >>) : n \in Lens \ {0} }
    \cup
    { Script("badcrc_payload", Req(n), EmptyResponse,
             << Idle(PadLen) \o WireAll(<<SYN>> \o RequestBytes(AlterPayload(Req(n)))),
                <<ACK, SYN>> \o Idle(FEED_THRESHOLD) >>) : n \in Lens \ {0} }
    \cup
    { Script("badcrc_response", Req(n), MkResponse(n),
             << Idle(PadLen) \o WireAll(<<SYN>> \o RequestBytes(Req(n)) \o <<ACK>>
                                         \o ResponseBytes(AlterCrc(MkResponse(n)))),
                <<ACK, SYN>> \o Idle(FEED_THRESHOLD) >>) : n \in Lens \ {0} }

\* a request whose length byte is 0x11, then a valid telegram: in the same
\* feed call, or in the next one
OverLenBytes == <<SYN, 3, 16, 7, 0, MAX_LEN + 1>>

OverLenScripts ==
    { Script("overlen_same_pass", Req(n), EmptyResponse,
             << Idle(PadLen) \o WireAll(OverLenBytes \o NoRespBytes(Req(n))) >>) : n \in Lens \ {0} }
    \cup
    { Script("overlen_next_pass", Req(n), EmptyResponse,
             << Idle(FEED_THRESHOLD) \o WireAll(OverLenBytes),
                Idle(PadLen) \o WireAll(NoRespBytes(Req(n))) >>) : n \in Lens \ {0} }

\* one byte string (idle bytes, then a telegram) fed whole, in 3-byte chunks
\* and in 1-byte chunks
ChunkedBytes == Idle(PadLen - 3) \o WireAll(NoRespBytes(Req(2)))

ChunkedScripts ==
    { Script("chunked", Req(2), EmptyResponse, Rechunk(ChunkedBytes, k)) :
         k \in {1, 3, Len(ChunkedBytes)} }

\* an escaped pair (the broadcast address 0xFE) cut by the end of a feed call
\* that parses, and the same bytes in one call
SplitPairScripts ==
    { Script("pair_split", MkRequest(3, BROADCAST, 1792, 1), EmptyResponse,
             << Idle(FEED_THRESHOLD - 2) \o <<SYN, 3, Wire(BROADCAST)[1]>>,
                <<Wire(BROADCAST)[2]>> \o WireAll(<<7, 0, 1>> \o Payload(1)
                    \o <<MkRequest(3, BROADCAST, 1792, 1).crc, SYN>>) \o Idle(FEED_THRESHOLD) >>),
      Script("pair_whole", MkRequest(3, BROADCAST, 1792, 1), EmptyResponse,
             << Idle(FEED_THRESHOLD - 2)
                \o WireAll(BroadcastBytes(MkRequest(3, BROADCAST, 1792, 1)))
                \o Idle(FEED_THRESHOLD) >>) }

\* an escape prefix in front of a plain byte (a framing error): 0xC5, then
\* the source address of a valid telegram
BadPairScripts ==
    { Script("pair_invalid", Req(n), EmptyResponse,
             << Idle(PadLen) \o <<SYN, 197>> \o WireAll(RequestBytes(Req(n)) \o <<ACK, SYN>>) >>) :
         n \in Lens \ {0} }

\* escaped pairs whose decoding overflows u8 (0xC7 0xC0) and whose command
\* code (4) is no EnhProtoResponse discriminant (0xD0 0x80)
OddPairScripts ==
    { Script("pair_overflow", EmptyRequest, EmptyResponse,
             << Idle(FEED_THRESHOLD) \o <<199, 192, SYN>> >>),
      Script("pair_unknown_cmd", EmptyRequest, EmptyResponse,
             << Idle(FEED_THRESHOLD) \o <<208, 128, SYN>> >>) }

\* three valid telegrams in a row, in every order: a request without
\* response, a request with response, a broadcast; fed in one call, in two
\* calls that cut the second telegram, and in 3-byte chunks
SeqTelegrams ==
    << [bytes |-> NoRespBytes(Req(1)), entry |-> RequestOnly(Req(1))],
       [bytes |-> WithRespBytes(Req(2), MkResponse(1)),
        entry |-> RequestAndResponse(Req(2), MkResponse(1))],
       [bytes |-> BroadcastBytes(MkRequest(3, BROADCAST, 1792, 1)),
        entry |-> RequestOnly(MkRequest(3, BROADCAST, 1792, 1))] >>

SeqOrders == { o \in [1 .. 3 -> 1 .. 3] : \A i, j \in 1 .. 3 : o[i] = o[j] => i = j }

SeqScript(o, chunks) ==
    [name |-> "sequence", req |-> EmptyRequest, resp |-> EmptyResponse, chunks |-> chunks,
     tele |-> [i \in 1 .. 3 |-> SeqTelegrams[o[i]].entry]]

SequenceScripts ==
    { SeqScript(o, << Idle(PadLen) \o WireAll(SeqTelegrams[o[1]].bytes
                        \o SeqTelegrams[o[2]].bytes \o SeqTelegrams[o[3]].bytes) >>) :
         o \in SeqOrders }
    \cup
    { SeqScript(o, << Idle(FEED_THRESHOLD) \o WireAll(SeqTelegrams[o[1]].bytes
                        \o SubSeq(SeqTelegrams[o[2]].bytes, 1, 4)),
                     WireAll(SubSeq(SeqTelegrams[o[2]].bytes, 5, Len(SeqTelegrams[o[2]].bytes))
                        \o SeqTelegrams[o[3]].bytes) \o Idle(FEED_THRESHOLD) >>) :
         o \in SeqOrders }
    \cup
    { SeqScript(o, Rechunk(Idle(PadLen) \o WireAll(SeqTelegrams[o[1]].bytes
                        \o SeqTelegrams[o[2]].bytes \o SeqTelegrams[o[3]].bytes)
                        \o Idle(FEED_THRESHOLD), 3)) :
         o \in SeqOrders }

\* a request, or a request with its response, answered by NACK or by a byte
\* that is neither ACK, NACK nor SYN (0x55), then the bus idles
NotAckedScripts ==
    { Script("request_not_acked", Req(n), EmptyResponse,
             << Idle(PadLen) \o WireAll(<<SYN>> \o RequestBytes(Req(n)) \o <<b, SYN, SYN>>) >>) :
         n \in Lens \ {0}, b \in {NACK, 85} }
    \cup
    { Script("response_not_acked", Req(n), MkResponse(n),
             << Idle(PadLen) \o WireAll(<<SYN>> \o RequestBytes(Req(n)) \o <<ACK>>
                    \o ResponseBytes(MkResponse(n)) \o <<b, SYN, SYN>>) >>) :
         n \in Lens \ {0}, b \in {NACK, 85} }

\* a broadcast request that is answered like a master/slave request: ACK,
\* response, ACK
BroadcastAnsweredScripts ==
    { Script("broadcast_answered", MkRequest(3, BROADCAST, 1792, n), MkResponse(n),
             << Idle(PadLen) \o WireAll(WithRespBytes(MkRequest(3, BROADCAST, 1792, n),
                                                      MkResponse(n))) >>) :
         n \in Lens \ {0} }

\* a request of length 0 followed by more than 256 idle bytes: the i8 counter
\* incoming_data_len runs from 0 down to -128 and on
RunawayScripts ==
    { Script("len0_runaway", Req(0), EmptyResponse,
             << Idle(PadLen) \o <<SYN, 3, 16, 7, 0, 0>> \o Idle(2 * 128 + 4) >>) }

\* a response whose length byte is 0x11, with 17 payload bytes and the
\* checksum that fits them
ResponseOverLenScripts ==
    { Script("response_overlen", Req(n), MkResponse(MAX_LEN + 1),
             << Idle(PadLen) \o WireAll(WithRespBytes(Req(n), MkResponse(MAX_LEN + 1))) >>) :
         n \in Lens \ {0} }

\* a broadcast telegram, then a request to a single device that is followed
\* by SYN instead of ACK
UnackedAfterBroadcastScripts ==
    { Script("unacked_after_broadcast", Req(n), EmptyResponse,
             << Idle(PadLen) \o WireAll(BroadcastBytes(MkRequest(3, BROADCAST, 1792, 1))
                                         \o RequestBytes(Req(n)) \o <<SYN>>) >>) :
         n \in Lens \ {0} }

\* a telegram abandoned by a SYN in WaitingForACK (after the request, or
\* after the response), then a complete telegram without response
AbandonedScripts ==
    { Script("request_abandoned", Req(m), EmptyResponse,
             << Idle(PadLen) \o WireAll(<<SYN>> \o RequestBytes(Req(n)) \o <<SYN>>
                                         \o RequestBytes(Req(m)) \o <<ACK, SYN>>) >>) :
         n \in Lens \ {0}, m \in Lens \ {0} }
    \cup
    { Script("response_abandoned", Req(m), EmptyResponse,
             << Idle(PadLen) \o WireAll(<<SYN>> \o RequestBytes(Req(n)) \o <<ACK>>
                                         \o ResponseBytes(MkResponse(n)) \o <<SYN>>
                                         \o RequestBytes(Req(m)) \o <<ACK, SYN>>) >>) :
         n \in Lens \ {0}, m \in Lens \ {0} }

Scripts ==
    AbandonedScripts \cup UnackedAfterBroadcastScripts \cup ResponseOverLenScripts \cup RunawayScripts \cup BroadcastAnsweredScripts \cup NotAckedScripts \cup BareScripts \cup PaddedScripts \cup BadCrcScripts \cup OverLenScripts
    \cup ChunkedScripts \cup SplitPairScripts \cup BadPairScripts \cup OddPairScripts
    \cup SequenceScripts

\* ------------------------------------------------- request-match patterns
\* A pattern and a hex string are sequences of one-character strings.

\* longest pattern / hex string tried
MaxStr == 3

\* literal pattern: position by position, `*' accepts any digit there, any
\* other character must equal the value's digit; the lengths must agree
RECURSIVE literal_matches(_, _)
literal_matches(pat, val) ==
    IF pat = <<>> THEN val = <<>>
    ELSE IF val = <<>> THEN FALSE
    ELSE IF Head(pat) = "*" \/ Head(pat) = Head(val)
    THEN literal_matches(Tail(pat), Tail(val))
    ELSE FALSE

\* `^<prefix>': the value starts with the prefix
RECURSIVE starts_with(_, _)
starts_with(val, prefix) ==
    IF prefix = <<>> THEN TRUE
    ELSE IF val = <<>> THEN FALSE
    ELSE IF Head(val) = Head(prefix) THEN starts_with(Tail(val), Tail(prefix))
    ELSE FALSE

\* pattern_matches with the literal comparison cut to the shorter length
pattern_matches_any_length(pat, val) ==
    IF pat = <<"*">> THEN TRUE
    ELSE IF pat # <<>> /\ Head(pat) = "^" THEN starts_with(val, Tail(pat))
    ELSE LET n == IF Len(pat) < Len(val) THEN Len(pat) ELSE Len(val)
         IN  literal_matches(SubSeq(pat, 1, n), SubSeq(val, 1, n))

\* does the pattern accept the value's hex string
pattern_matches(pat, val) ==
    IF pat = <<"*">> THEN TRUE
    ELSE IF pat # <<>> /\ Head(pat) = "^" THEN starts_with(val, Tail(pat))
    ELSE literal_matches(pat, val)

Strings(alphabet, n) == UNION { [1 .. k -> alphabet] : k \in 0 .. n }

\* the patterns and hex strings tried: all short ones over a few characters,
\* and those of the spec's examples
Patterns ==
    Strings({"4", "F", "*", "^"}, MaxStr)
    \cup { <<"^", "4", "B">>, <<"4", "*", "0", "1">>, <<"*">> }
HexStrings ==
    Strings({"4", "F"}, MaxStr)
    \cup { <<"4", "B", "0", "1">>, <<"3", "A", "0", "1">>,
           <<"4", "F", "0", "1">>, <<"4", "F", "0", "2">> }

\* --------------------------------------------------------- hex renderings
\* The strings the matcher compares against patterns.

\* longest payload rendered
MaxData == 1

HexDigits == <<"0", "1", "2", "3", "4", "5", "6", "7",
               "8", "9", "A", "B", "C", "D", "E", "F">>

\* format!("{:X?}", n): the uppercase hex digits of n, no width, no padding
RECURSIVE upper_hex(_)
upper_hex(n) ==
    IF n < 16 THEN <<HexDigits[n + 1]>>
    ELSE upper_hex(n \div 16) \o <<HexDigits[(n % 16) + 1]>>

\* hex::encode_upper: two uppercase hex digits for every byte
RECURSIVE encode_upper(_)
encode_upper(bytes) ==
    IF bytes = <<>> THEN <<>>
    ELSE <<HexDigits[(Head(bytes) \div 16) + 1], HexDigits[(Head(bytes) % 16) + 1]>>
         \o encode_upper(Tail(bytes))

src_hex(r) == upper_hex(r.src)
dest_hex(r) == upper_hex(r.dest)
pbsb_hex(r) == upper_hex(r.pbsb)
data_hex(r) == encode_upper(r.data)

\* the requests rendered: small, large and zero field values
RenderBytes == {0, 3, 10, 16, 171, 255}
RenderCommands == {0, 7, 1792, 46345, 65535}
RenderRequests ==
    { [src |-> a, dest |-> b, pbsb |-> c, len |-> Len(d), data |-> d, crc |-> 0] :
        a \in RenderBytes, b \in RenderBytes, c \in RenderCommands,
        d \in Strings(RenderBytes, MaxData) }

\* a request handed to the matcher, its fields not rendered yet
NotRendered(r) ==
    [request |-> r, done |-> FALSE,
     src_hex |-> <<>>, dest_hex |-> <<>>, pbsb_hex |-> <<>>, data_hex |-> <<>>]

\* ------------------------------------------------------- checksum inputs
\* longest byte sequence whose checksum is computed
MaxCrcLen == 3

CrcBytes == {0, 85, 255}
CrcSequences == Strings(CrcBytes, MaxCrcLen)

\* the sequences that differ from a in exactly one byte
OneByteChanges(a) ==
    UNION { { [a EXCEPT ![i] = v] : v \in (0 .. 255) \ {a[i]} } : i \in 1 .. Len(a) }

\* ------------------------------------------------------------------ state
VARIABLES state, request, response, incoming_data_len, incoming, buffer,
          got_response, ack_received, got_broadcast,
          delivered, halted, pc, build, script, fedCount,
          dispatched, pattern, value, verdict,
          rendered, sequences, checksums

parserVars == <<state, request, response, incoming_data_len, incoming, buffer,
                got_response, ack_received, got_broadcast, delivered, halted, pc>>
envVars == <<build, script, fedCount>>
\* the matcher's pattern, the hex string it is applied to, and its verdict
matchVars == <<pattern, value, verdict>>
\* the request handed to the hex renderers and its renderings
renderVars == <<rendered>>
\* two byte sequences and their checksums
crcVars == <<sequences, checksums>>
vars == <<state, request, response, incoming_data_len, incoming, buffer,
          got_response, ack_received, got_broadcast,
          delivered, halted, pc, build, script, fedCount,
          dispatched, pattern, value, verdict,
          rendered, sequences, checksums>>

\* `dispatched' records the last dispatch of the state machine: the state it
\* was in and the logical byte it consumed
NoDispatch == [state |-> "none", byte |-> 0]

Cur ==
    [state |-> state, request |-> request, response |-> response,
     incoming_data_len |-> incoming_data_len, incoming |-> incoming, buffer |-> buffer,
     got_response |-> got_response, ack_received |-> ack_received,
     got_broadcast |-> got_broadcast,
     delivered |-> delivered, halted |-> halted, pc |-> pc]

Install(ps) ==
    /\ state' = ps.state
    /\ request' = ps.request
    /\ response' = ps.response
    /\ incoming_data_len' = ps.incoming_data_len
    /\ incoming' = ps.incoming
    /\ buffer' = ps.buffer
    /\ got_response' = ps.got_response
    /\ ack_received' = ps.ack_received
    /\ got_broadcast' = ps.got_broadcast
    /\ delivered' = ps.delivered
    /\ halted' = ps.halted
    /\ pc' = ps.pc

\* a freshly constructed parser, nothing fed, nothing dispatched
InitParser ==
    /\ state = NewParser.state
    /\ request = NewParser.request
    /\ response = NewParser.response
    /\ incoming_data_len = NewParser.incoming_data_len
    /\ incoming = NewParser.incoming
    /\ buffer = NewParser.buffer
    /\ got_response = NewParser.got_response
    /\ ack_received = NewParser.ack_received
    /\ got_broadcast = NewParser.got_broadcast
    /\ delivered = NewParser.delivered
    /\ halted = NewParser.halted
    /\ pc = NewParser.pc
    /\ fedCount = 0
    /\ dispatched = NoDispatch

\* the matcher has nothing to decide
InitMatcher ==
    /\ pattern = <<>>
    /\ value = <<>>
    /\ verdict = "pending"

\* no request has been handed to the renderers
InitRender == rendered = NotRendered(EmptyRequest)

\* no checksum has been asked for
InitCrc ==
    /\ sequences = <<>>
    /\ checksums = <<>>

Init ==
    /\ InitParser
    /\ InitMatcher
    /\ InitRender
    /\ InitCrc
    /\ build \in Builds
    /\ script \in Scripts

\* the caller feeds the next chunk
Feed ==
    /\ ~halted
    /\ pc = "idle"
    /\ fedCount < Len(script.chunks)
    /\ Install(feed(Cur, script.chunks[fedCount + 1]))
    /\ fedCount' = fedCount + 1
    /\ UNCHANGED <<build, script, dispatched>>
    /\ UNCHANGED <<matchVars, renderVars, crcVars>>

\* one iteration of the deframing loop
ParseIncomingDataStep ==
    /\ ~halted
    /\ pc = "deframe"
    /\ Install(parse_incoming_data_iter(Cur, build))
    /\ UNCHANGED <<envVars, dispatched>>
    /\ UNCHANGED <<matchVars, renderVars, crcVars>>

\* one iteration of the state machine loop
ParseProtocolBufferStep ==
    /\ ~halted
    /\ pc = "parse"
    /\ Install(parse_protocol_buffer_iter(Cur, build))
    /\ dispatched' = IF buffer = <<>> THEN dispatched
                     ELSE [state |-> state, byte |-> Head(buffer).data]
    /\ UNCHANGED envVars
    /\ UNCHANGED <<matchVars, renderVars, crcVars>>

Next == Feed \/ ParseIncomingDataStep \/ ParseProtocolBufferStep

Spec == Init /\ [][Next]_vars

\* the matcher applies a pattern to a hex string
ApplyPattern ==
    /\ verdict = "pending"
    /\ verdict' = IF pattern_matches(pattern, value) THEN "accepted" ELSE "rejected"
    /\ UNCHANGED <<pattern, value>>
    /\ UNCHANGED <<parserVars, envVars, dispatched, renderVars, crcVars>>

\* the matcher on its own, given a pattern and a hex string, next to a
\* parser that is not fed
MatchInit ==
    /\ InitParser
    /\ pattern \in Patterns
    /\ value \in HexStrings
    /\ verdict = "pending"
    /\ InitRender
    /\ InitCrc
    /\ build = [overflow |-> "panic", ub |-> "trap"]
    /\ script = Script("none", EmptyRequest, EmptyResponse, <<>>)

MatchNext == ApplyPattern

MatchSpec == MatchInit /\ [][MatchNext]_vars

\* the matcher renders the fields of the request it was handed
RenderRequest ==
    /\ ~rendered.done
    /\ rendered' = [request |-> rendered.request, done |-> TRUE,
                    src_hex |-> src_hex(rendered.request),
                    dest_hex |-> dest_hex(rendered.request),
                    pbsb_hex |-> pbsb_hex(rendered.request),
                    data_hex |-> data_hex(rendered.request)]
    /\ UNCHANGED <<parserVars, envVars, dispatched, matchVars, crcVars>>

\* the renderers on their own, given a request, next to a parser that is not
\* fed
RenderInit ==
    /\ InitParser
    /\ InitMatcher
    /\ InitCrc
    /\ rendered \in { NotRendered(r) : r \in RenderRequests }
    /\ build = [overflow |-> "panic", ub |-> "trap"]
    /\ script = Script("none", EmptyRequest, EmptyResponse, <<>>)

RenderNext == RenderRequest

RenderSpec == RenderInit /\ [][RenderNext]_vars

\* calc_crc8 over each of the two byte sequences
CalcCrc8 ==
    /\ checksums = <<>>
    /\ checksums' = <<crc_fold(0, sequences[1]), crc_fold(0, sequences[2])>>
    /\ UNCHANGED sequences
    /\ UNCHANGED <<parserVars, envVars, dispatched, matchVars, renderVars>>

\* the checksum on its own, given two byte sequences, next to a parser that
\* is not fed
CrcInit ==
    /\ InitParser
    /\ InitMatcher
    /\ InitRender
    /\ \E a \in CrcSequences :
          \E b \in {a} \cup OneByteChanges(a) : sequences = <<a, b>>
    /\ checksums = <<>>
    /\ build = [overflow |-> "panic", ub |-> "trap"]
    /\ script = Script("none", EmptyRequest, EmptyResponse, <<>>)

CrcNext == CalcCrc8

CrcSpec == CrcInit /\ [][CrcNext]_vars

TypeOK ==
    /\ state \in {"WaitingForSYN", "WaitingForSrc", "WaitingForDest", "WaitingForPB",
                  "WaitingForSB", "WaitingForLen", "WaitingForData", "WaitingForCRC",
                  "WaitingForACK", "WaitingForResponse"}
    /\ incoming_data_len \in -128 .. 127
    /\ pc \in {"idle", "deframe", "parse"}

\* ----------------------------------------------------------------- claims
\* every feed call of the script has been made and has returned
Done == ~halted /\ pc = "idle" /\ fedCount = Len(script.chunks)

\* C1: a fresh parser fed SYN, a non-broadcast request with correct checksum
\* (length 0..16), ACK, SYN has invoked the callback exactly once, with the
\* request as fed and no response.
C1_NoResponseTelegramDelivered ==
    (script.name = "bare_noresp" /\ Done) => delivered = <<RequestOnly(script.req)>>

\* C2: request, ACK, response with correct checksum, ACK invokes the callback
\* exactly once with the request and the response as fed.
C2_ResponseTelegramDelivered ==
    (script.name \in {"bare_resp", "pad_resp"} /\ Done)
        => delivered = <<RequestAndResponse(script.req, script.resp)>>

\* C3: a broadcast request with correct checksum followed directly by SYN is
\* delivered exactly once without a response and the machine is then in
\* WaitingForSrc.
C3_BroadcastDelivered ==
    (script.name \in {"bare_broadcast", "pad_broadcast"} /\ Done)
        => (delivered = <<RequestOnly(script.req)>> /\ state = "WaitingForSrc")

\* the state machine is about to consume the logical byte at the front of buffer
Consuming(st) == ~halted /\ pc = "parse" /\ buffer # <<>> /\ state = st
NextByte == Head(buffer).data

\* CRC8 of the active fields (the response once got_response is set)
ActiveCrc == IF got_response THEN response_calc_crc8(response) ELSE request_calc_crc8(request)

\* C4: a checksum byte that differs from CRC8 of the active fields delivers
\* nothing and leaves the machine in WaitingForSYN right after that byte.
C4_CrcMismatchResetsToWaitSYN ==
    [][(Consuming("WaitingForCRC") /\ NextByte # ActiveCrc)
          => (state' = "WaitingForSYN" /\ delivered' = delivered)]_vars

\* C5: a request length byte above 0x10 aborts the telegram and the next valid
\* SYN-led telegram of the input is delivered, whether it lies in the same
\* parse pass or in the next.
C5_TelegramAfterOverlongLengthDelivered ==
    (script.name \in {"overlen_same_pass", "overlen_next_pass"} /\ Done)
        => (delivered = <<RequestOnly(script.req)>>)

RECURSIVE Flatten(_)
Flatten(chunks) == IF chunks = <<>> THEN <<>> ELSE Head(chunks) \o Flatten(Tail(chunks))

\* C6: a byte sequence fed in 1-byte or 3-byte chunks produces the callback
\* invocations of the same sequence fed as one chunk.
C6_ChunkingInvariant ==
    (script.name = "chunked" /\ Done)
        => delivered = feed_all(NewParser, <<Flatten(script.chunks)>>, build).delivered

\* a request / response as the claims describe a delivered one
WellFormedRequest(r) ==
    /\ r # EmptyRequest
    /\ r.len <= MAX_LEN
    /\ Len(r.data) = r.len
    /\ r.crc = request_calc_crc8(r)

WellFormedResponse(r) ==
    /\ r.len <= MAX_LEN
    /\ Len(r.data) = r.len
    /\ r.crc = response_calc_crc8(r)

\* C7: every callback invocation carries a completely assembled request
\* (length <= 16, that many payload bytes, matching checksum; never the cleared
\* all-zero request) and, when present, such a response.
C7_OnlyCompleteTelegramsDelivered ==
    \A i \in 1 .. Len(delivered) :
        /\ WellFormedRequest(delivered[i].request)
        /\ delivered[i].has_response => WellFormedResponse(delivered[i].response)

\* C8: right after every emit the request and the response are cleared and
\* got_response, ack_received and got_broadcast are false.
C8_EmitClearsTelegramAndFlags ==
    [][Len(delivered') > Len(delivered)
          => (/\ request' = EmptyRequest
              /\ response' = EmptyResponse
              /\ ~got_response'
              /\ ~ack_received'
              /\ ~got_broadcast')]_vars

\* the deframer is about to run an iteration on a non-empty queue
Deframing == ~halted /\ pc = "deframe" /\ incoming # <<>>

\* C9: an escape prefix that is the last queued byte is not consumed: it stays
\* at the head of the incoming queue for the next feed.
C9_LoneEscapePrefixStaysQueued ==
    [][(Deframing /\ Len(incoming) = 1 /\ BitsAnd(incoming[1], 192, 8) = 192)
          => incoming' = incoming]_vars

\* C10: an escape prefix followed by a byte below 0x80 loses only the prefix:
\* the second byte stays queued to be processed next.
C10_InvalidPairDropsOnlyPrefix ==
    [][(Deframing /\ Len(incoming) >= 2 /\ BitsAnd(incoming[1], 192, 8) = 192
            /\ BitsAnd(incoming[2], 128, 8) = 0)
          => (incoming' = Tail(incoming) /\ buffer' = buffer)]_vars

\* the logical bytes queued for the state machine
LogicalBytes(buf) == [i \in 1 .. Len(buf) |-> buf[i].data]

\* the deframer is at a plain byte / at a complete valid escaped pair
AtPlainByte == Deframing /\ BitsAnd(incoming[1], 192, 8) # 192
AtValidPair ==
    /\ Deframing
    /\ Len(incoming) >= 2
    /\ BitsAnd(incoming[1], 192, 8) = 192
    /\ BitsAnd(incoming[2], 128, 8) = 128

\* C11: a plain byte is forwarded unchanged, a valid pair with command 1
\* forwards its decoded data byte, a valid pair with any other command 0..15
\* forwards nothing and leaves the telegram state machine as it is.
C11_DeframerForwardsPlainAndReceivedOnly ==
    [][(AtPlainByte \/ AtValidPair)
          => (/\ ~halted'
              /\ UNCHANGED <<state, request, response>>
              /\ LogicalBytes(buffer') = LogicalBytes(buffer) \o
                    (IF AtPlainByte THEN <<incoming[1]>>
                     ELSE IF decode_enhproto_tuple(incoming[1], incoming[2]).cmd = Received
                     THEN <<decode_enhproto_tuple(incoming[1], incoming[2]).data>>
                     ELSE <<>>))]_vars

\* C12: when a feed call has returned, every byte supplied so far has gone
\* through the deframer and the state machine; at most a lone escape prefix
\* is still queued.
C12_FeedLeavesNothingQueued ==
    (~halted /\ pc = "idle")
        => (/\ buffer = <<>>
            /\ \/ incoming = <<>>
               \/ (Len(incoming) = 1 /\ BitsAnd(incoming[1], 192, 8) = 192))

\* d holds entries of e, in the order of e, each at most once (e has no
\* repeated entry)
RECURSIVE IsSubsequence(_, _)
IsSubsequence(d, e) ==
    IF d = <<>> THEN TRUE
    ELSE IF e = <<>> THEN FALSE
    ELSE IF Head(d) = Head(e) THEN IsSubsequence(Tail(d), Tail(e))
    ELSE IsSubsequence(d, Tail(e))

\* C13: the delivered telegrams are telegrams of the input in the order in
\* which they were fed, and no telegram is delivered twice.
C13_DeliveredInArrivalOrderOnce ==
    /\ script.name = "sequence" => IsSubsequence(delivered, script.tele)
    /\ \A i, j \in 1 .. Len(delivered) : delivered[i] = delivered[j] => i = j

\* all three telegrams of a sequence have been delivered
C13_Witness ==
    script.name = "sequence" /\ Len(script.chunks) = 2 /\ Done /\ delivered = script.tele

\* C14: in WaitingForACK a NACK, or any byte other than ACK and SYN, drops the
\* telegram: no callback, request and response cleared, next state
\* WaitingForSYN.
C14_NotAckedTelegramDropped ==
    [][(Consuming("WaitingForACK") /\ NextByte \notin {ACK, SYN})
          => (/\ delivered' = delivered
              /\ request' = EmptyRequest
              /\ response' = EmptyResponse
              /\ state' = "WaitingForSYN")]_vars

\* the state machine has just consumed such a byte in WaitingForACK
C14_Witness ==
    /\ dispatched.state = "WaitingForACK"
    /\ dispatched.byte \notin {ACK, SYN}
    /\ script.name \in {"request_not_acked", "response_not_acked"}
    /\ pc = "parse"
    /\ state = "WaitingForSYN"
    /\ delivered = <<>>

\* C15: a callback invocation that carries a response never carries a request
\* to the broadcast address 0xFE.
C15_NoResponseWithBroadcastRequest ==
    \A i \in 1 .. Len(delivered) :
        delivered[i].has_response => delivered[i].request.dest # BROADCAST

\* C16: no input is fatal: the feeding thread never panics or traps, no
\* escaped pair overflows the u8 decoding or carries a command outside
\* EnhProtoResponse into the match, and the remaining-bytes counter is never
\* decremented below its i8 range.
C16_NoFatalInput ==
    /\ ~halted
    /\ AtValidPair =>
          /\ ~decode_enhproto_tuple(incoming[1], incoming[2]).overflow
          /\ decode_enhproto_tuple(incoming[1], incoming[2]).cmd \in EnhProtoResponse
    /\ Consuming("WaitingForData") => incoming_data_len > -128

\* C17: "*" accepts every string; "^P" accepts exactly the strings that start
\* with P; any other pattern accepts exactly the strings of its length that
\* agree with it wherever its character is not `*'.
C17_PatternLanguage ==
    /\ verdict # "pending" =>
         (verdict = "accepted") =
          IF pattern = <<"*">> THEN TRUE
          ELSE IF pattern # <<>> /\ pattern[1] = "^"
          THEN /\ Len(value) >= Len(pattern) - 1
               /\ \A i \in 1 .. Len(pattern) - 1 : value[i] = pattern[i + 1]
          ELSE /\ Len(value) = Len(pattern)
               /\ \A i \in 1 .. Len(pattern) : pattern[i] # "*" => value[i] = pattern[i]
    /\ (pattern = <<"^", "4", "B">> /\ value = <<"4", "B", "0", "1">>) => verdict # "rejected"
    /\ (pattern = <<"^", "4", "B">> /\ value = <<"3", "A", "0", "1">>) => verdict # "accepted"
    /\ (pattern = <<"4", "*", "0", "1">> /\ value = <<"4", "F", "0", "1">>) => verdict # "rejected"
    /\ (pattern = <<"4", "*", "0", "1">> /\ value = <<"4", "F", "0", "2">>) => verdict # "accepted"

\* the literal pattern "4*01" has been applied to "4F01"
C17_Witness ==
    pattern = <<"4", "*", "0", "1">> /\ value = <<"4", "F", "0", "1">> /\ verdict = "accepted"

\* C18: in WaitingForResponse a non-SYN byte above 0x10 aborts the telegram
\* (no callback, reset to WaitingForSYN); only a byte in 0..16 becomes the
\* response length and starts the collecting of the payload.
C18_ResponseLengthValidated ==
    [][(Consuming("WaitingForResponse") /\ NextByte # SYN)
          => IF NextByte > MAX_LEN
             THEN /\ state' = "WaitingForSYN"
                  /\ delivered' = delivered
                  /\ request' = EmptyRequest
                  /\ response' = EmptyResponse
             ELSE /\ state' = "WaitingForData"
                  /\ response'.len = NextByte]_vars

\* C19: a request whose destination is not 0xFE and that is followed by SYN
\* in WaitingForACK, with no ACK received, is not delivered, whatever was
\* processed before it; the machine moves to WaitingForSrc.
C19_UnackedRequestNotDelivered ==
    [][(/\ Consuming("WaitingForACK")
        /\ NextByte = SYN
        /\ ~got_response
        /\ request.dest # BROADCAST)
          => (delivered' = delivered /\ state' = "WaitingForSrc")]_vars

\* the last dispatched byte was a length byte 0 that was accepted: a telegram
\* is in progress and its active length is 0
ZeroLengthAccepted ==
    /\ dispatched.byte = 0
    /\ \/ dispatched.state = "WaitingForLen" /\ ~got_response
       \/ dispatched.state = "WaitingForResponse" /\ got_response
    /\ state \notin {"WaitingForSYN", "WaitingForSrc"}

\* C20: after an accepted length byte 0 (request or response) the very next
\* logical byte is taken as the checksum (the machine leaves the checksum
\* stage), the active payload stays empty and the remaining-bytes counter
\* does not go below 0.
C20_ZeroLengthSkipsPayload ==
    [][(~halted /\ pc = "parse" /\ buffer # <<>> /\ ZeroLengthAccepted)
          => /\ state' \in {"WaitingForACK", "WaitingForSYN"}
             /\ request'.data = <<>>
             /\ response'.data = <<>>
             /\ incoming_data_len' >= 0]_vars

\* C21: in every reachable state the request and response payloads hold at
\* most 16 bytes and no more bytes than their length field, the length fields
\* are in 0..16 and the remaining-bytes counter is in 0..16.
C21_PayloadAndCounterBounded ==
    /\ Len(request.data) <= MAX_LEN
    /\ Len(request.data) <= request.len
    /\ Len(response.data) <= MAX_LEN
    /\ Len(response.data) <= response.len
    /\ request.len \in 0 .. MAX_LEN
    /\ response.len \in 0 .. MAX_LEN
    /\ incoming_data_len \in 0 .. MAX_LEN

\* the request's checksum has been consumed and the telegram is neither
\* emitted nor dropped: the ACK and response phases
AfterRequestCrc ==
    \/ state \in {"WaitingForACK", "WaitingForResponse"}
    \/ got_response /\ state \in {"WaitingForData", "WaitingForCRC"}

\* C22: once the request's checksum byte is consumed, a byte of the ACK and
\* response phases leaves the request as it is, unless that byte emits or
\* drops the telegram (which clears the request).
C22_RequestFrozenAfterCrc ==
    [][(~halted /\ pc = "parse" /\ buffer # <<>> /\ AfterRequestCrc)
          => \/ request' = request
             \/ /\ request' = EmptyRequest
                /\ response' = EmptyResponse
                /\ \/ Len(delivered') = Len(delivered) + 1
                   \/ state' \in {"WaitingForSYN", "WaitingForACK"}]_vars

\* a response payload has been collected behind a complete request
C22_Witness ==
    /\ state = "WaitingForCRC"
    /\ got_response
    /\ response.data # <<>>
    /\ request.data # <<>>
    /\ request.crc = request_calc_crc8(request)
    /\ dispatched.state = "WaitingForData"

\* C25: whenever the machine is in WaitingForSYN or WaitingForSrc the request
\* payload and the response payload are empty and got_response is false, so
\* nothing of an earlier telegram is carried into the next one.
C25_NothingCarriedIntoNextTelegram ==
    state \in {"WaitingForSYN", "WaitingForSrc"}
        => /\ request.data = <<>>
           /\ response.data = <<>>
           /\ ~got_response

\* the byte at the head of the logical queue makes the machine drop the
\* telegram: an over-long request length, a checksum mismatch, NACK or any
\* other byte that is neither ACK nor SYN in WaitingForACK
DropByte ==
    \/ Consuming("WaitingForLen") /\ NextByte > MAX_LEN
    \/ Consuming("WaitingForCRC") /\ NextByte # ActiveCrc
    \/ Consuming("WaitingForACK") /\ NextByte \notin {ACK, SYN}

\* C26: dropping a telegram discards the in-progress telegram only: the bytes
\* queued behind the dropping byte, in the incoming queue and in the logical
\* byte queue, are left as they are.
C26_DropKeepsQueuedBytes ==
    [][DropByte => (buffer' = Tail(buffer) /\ incoming' = incoming)]_vars

\* C24: for every pair the deframer accepts as a valid escaped pair the 8-bit
\* computation of data does not overflow and yields the byte made of the low
\* two bits of b1 and the low six bits of b2, and command is in 0..15.
C24_DecodeWithinU8 ==
    AtValidPair =>
        LET decoded == decode_enhproto_tuple(incoming[1], incoming[2])
        IN  /\ ~decoded.overflow
            /\ decoded.data = (incoming[1] % 4) * 64 + (incoming[2] % 64)
            /\ decoded.cmd \in 0 .. 15

\* the left fold of table[running] XOR byte from 0 over the first n bytes
RECURSIVE crc8_left_fold(_, _)
crc8_left_fold(bytes, n) ==
    IF n = 0 THEN 0
    ELSE BitsXor(CRC_LOOKUP_TABLE[crc8_left_fold(bytes, n - 1) + 1], bytes[n], 8)

\* the positions at which two sequences of one length differ
DifferAt(a, b) == { i \in 1 .. Len(a) : a[i] # b[i] }

\* C23: the checksum is the left fold of table[running] XOR byte from 0, it
\* depends on the byte sequence alone, and two sequences of one length that
\* differ in exactly one byte have different checksums; the 256-entry table
\* is a permutation of 0..255.
C23_Crc8FoldDetectsSingleByteChange ==
    /\ checksums # <<>> =>
         /\ checksums[1] = crc8_left_fold(sequences[1], Len(sequences[1]))
         /\ checksums[2] = crc8_left_fold(sequences[2], Len(sequences[2]))
         /\ sequences[1] = sequences[2] => checksums[1] = checksums[2]
         /\ (/\ Len(sequences[1]) = Len(sequences[2])
             /\ Cardinality(DifferAt(sequences[1], sequences[2])) = 1)
               => checksums[1] # checksums[2]
    /\ Len(CRC_LOOKUP_TABLE) = 256
    /\ { CRC_LOOKUP_TABLE[i] : i \in 1 .. 256 } = 0 .. 255

\* the checksums of two 3-byte sequences that differ in their first byte by
\* one flipped bit have been computed
C23_Witness ==
    /\ checksums # <<>>
    /\ sequences[1] = <<85, 0, 255>>
    /\ sequences[2] = <<84, 0, 255>>

\* C27: the renderings are fixed-width uppercase hex: src_hex and dest_hex
\* have 2 digits, pbsb_hex 4 digits, data_hex 2 digits per payload byte, so
\* a literal pattern of the field's width matches every value of the field.
C27_FixedWidthHex ==
    rendered.done =>
        /\ Len(rendered.src_hex) = 2
        /\ Len(rendered.dest_hex) = 2
        /\ Len(rendered.pbsb_hex) = 4
        /\ Len(rendered.data_hex) = 2 * Len(rendered.request.data)
        /\ pattern_matches(<<"*", "*">>, rendered.src_hex)
        /\ pattern_matches(<<"*", "*">>, rendered.dest_hex)
        /\ pattern_matches(<<"*", "*", "*", "*">>, rendered.pbsb_hex)
        /\ rendered.request.src = 3 => rendered.src_hex = <<"0", "3">>
        /\ rendered.request.pbsb = 1792 => rendered.pbsb_hex = <<"0", "7", "0", "0">>
====
